---- MODULE Spec2Model ----
(***************************************************************************)
(* Model of the AWS IoT Device Defender topic codec (source/defender.c).   *)
(*                                                                         *)
(* Bytes are one-character strings, C arrays are sequences (C index i is   *)
(* sequence index i + 1), pointers are the name of the caller object they  *)
(* point at, or NULL.  Each `if( ret == DefenderSuccess )` block of        *)
(* Defender_GetTopic and Defender_MatchTopic is one step of the call.      *)
(***************************************************************************)
EXTENDS Integers, Sequences, FiniteSets, TLC

VARIABLES pc, mem, mem0, gt, mt, acc

vars == <<pc, mem, mem0, gt, mt, acc>>

(***************************************************************************)
(* Bounds of the model.                                                    *)
(***************************************************************************)
\* Thing names of every length 0..MaxIdLen over IdBytes are enumerated.
MaxIdLen == 3
\* Buffer capacities 33..MaxBufferLength are enumerated.
MaxBufferLength == 47
\* Thing names in matcher inputs have length 0..MaxTopicIdLen.
MaxTopicIdLen == 2

(***************************************************************************)
(* defender.h: enumerations and literals.                                  *)
(***************************************************************************)
DefenderError == 0
DefenderSuccess == 1
DefenderNoMatch == 2
DefenderBadParameter == 3
DefenderBufferTooSmall == 4

DefenderInvalidTopic == -1
DefenderJsonReportPublish == 0
DefenderJsonReportAccepted == 1
DefenderJsonReportRejected == 2
DefenderCborReportPublish == 3
DefenderCborReportAccepted == 4
DefenderCborReportRejected == 5
DefenderMaxTopic == 6

DEFENDER_THINGNAME_MAX_LENGTH == 128

\* Variant: sizeof( literal ) without the - 1U, counting the terminator.
STRING_LITERAL_LENGTH_Sizeof(literal) == Len(literal) + 1

STRING_LITERAL_LENGTH(literal) == Len(literal)

DEFENDER_API_PREFIX == <<"$", "a", "w", "s", "/", "t", "h", "i", "n", "g", "s", "/">>
DEFENDER_API_PREFIX_LENGTH == STRING_LITERAL_LENGTH(DEFENDER_API_PREFIX)

\* Variant: a misspelt bridge literal.
DEFENDER_API_BRIDGE_Typo ==
    <<"/", "d", "e", "f", "e", "n", "d", "e", "r", "/", "m", "e", "t", "r", "i", "c", "/">>

DEFENDER_API_BRIDGE ==
    <<"/", "d", "e", "f", "e", "n", "d", "e", "r", "/", "m", "e", "t", "r", "i", "c", "s", "/">>
DEFENDER_API_BRIDGE_LENGTH == STRING_LITERAL_LENGTH(DEFENDER_API_BRIDGE)

DEFENDER_API_JSON_REPORT_FORMAT == <<"j", "s", "o", "n">>
DEFENDER_API_JSON_REPORT_FORMAT_LENGTH == STRING_LITERAL_LENGTH(DEFENDER_API_JSON_REPORT_FORMAT)

DEFENDER_API_CBOR_REPORT_FORMAT == <<"c", "b", "o", "r">>
DEFENDER_API_CBOR_REPORT_FORMAT_LENGTH == STRING_LITERAL_LENGTH(DEFENDER_API_CBOR_REPORT_FORMAT)

DEFENDER_API_ACCEPTED_SUFFIX == <<"/", "a", "c", "c", "e", "p", "t", "e", "d">>
DEFENDER_API_ACCEPTED_SUFFIX_LENGTH == STRING_LITERAL_LENGTH(DEFENDER_API_ACCEPTED_SUFFIX)

DEFENDER_API_REJECTED_SUFFIX == <<"/", "r", "e", "j", "e", "c", "t", "e", "d">>
DEFENDER_API_REJECTED_SUFFIX_LENGTH == STRING_LITERAL_LENGTH(DEFENDER_API_REJECTED_SUFFIX)

DEFENDER_API_NULL_SUFFIX_LENGTH == 0

\* uint16_t arithmetic is modulo UINT16.  The uint32_t sums of the code add a
\* uint16_t to a few literal lengths, stay below 2^17 and are computed exactly.
UINT16 == 65536

DEFENDER_API_COMMON_LENGTH(thingNameLength, reportFormatLength, suffixLength) ==
    DEFENDER_API_PREFIX_LENGTH + thingNameLength + DEFENDER_API_BRIDGE_LENGTH
        + reportFormatLength + suffixLength

DEFENDER_API_JSON_REPORT_PUBLISH_LENGTH(thingNameLength) ==
    DEFENDER_API_COMMON_LENGTH(thingNameLength,
                               DEFENDER_API_JSON_REPORT_FORMAT_LENGTH,
                               DEFENDER_API_NULL_SUFFIX_LENGTH)

DEFENDER_API_JSON_REPORT_ACCEPTED_LENGTH(thingNameLength) ==
    DEFENDER_API_COMMON_LENGTH(thingNameLength,
                               DEFENDER_API_JSON_REPORT_FORMAT_LENGTH,
                               DEFENDER_API_ACCEPTED_SUFFIX_LENGTH)

DEFENDER_API_JSON_REPORT_REJECTED_LENGTH(thingNameLength) ==
    DEFENDER_API_COMMON_LENGTH(thingNameLength,
                               DEFENDER_API_JSON_REPORT_FORMAT_LENGTH,
                               DEFENDER_API_REJECTED_SUFFIX_LENGTH)

DEFENDER_API_CBOR_REPORT_PUBLISH_LENGTH(thingNameLength) ==
    DEFENDER_API_COMMON_LENGTH(thingNameLength,
                               DEFENDER_API_CBOR_REPORT_FORMAT_LENGTH,
                               DEFENDER_API_NULL_SUFFIX_LENGTH)

DEFENDER_API_CBOR_REPORT_ACCEPTED_LENGTH(thingNameLength) ==
    DEFENDER_API_COMMON_LENGTH(thingNameLength,
                               DEFENDER_API_CBOR_REPORT_FORMAT_LENGTH,
                               DEFENDER_API_ACCEPTED_SUFFIX_LENGTH)

DEFENDER_API_CBOR_REPORT_REJECTED_LENGTH(thingNameLength) ==
    DEFENDER_API_COMMON_LENGTH(thingNameLength,
                               DEFENDER_API_CBOR_REPORT_FORMAT_LENGTH,
                               DEFENDER_API_REJECTED_SUFFIX_LENGTH)

\* Variant: the shortest variant is taken for the longest.
DEFENDER_API_MAX_LENGTH_Publish(thingNameLength) ==
    DEFENDER_API_CBOR_REPORT_PUBLISH_LENGTH(thingNameLength)

DEFENDER_API_MAX_LENGTH(thingNameLength) ==
    DEFENDER_API_CBOR_REPORT_ACCEPTED_LENGTH(thingNameLength)

(***************************************************************************)
(* defender.c: the tables of the matcher.                                  *)
(***************************************************************************)
defenderApi ==
    << DefenderJsonReportPublish,
       DefenderJsonReportAccepted,
       DefenderJsonReportRejected,
       DefenderCborReportPublish,
       DefenderCborReportAccepted,
       DefenderCborReportRejected >>

\* Variant: the accepted and rejected JSON strings are in each other's place.
defenderApiTopic_Swapped ==
    << DEFENDER_API_JSON_REPORT_FORMAT,
       DEFENDER_API_JSON_REPORT_FORMAT \o DEFENDER_API_REJECTED_SUFFIX,
       DEFENDER_API_JSON_REPORT_FORMAT \o DEFENDER_API_ACCEPTED_SUFFIX,
       DEFENDER_API_CBOR_REPORT_FORMAT,
       DEFENDER_API_CBOR_REPORT_FORMAT \o DEFENDER_API_ACCEPTED_SUFFIX,
       DEFENDER_API_CBOR_REPORT_FORMAT \o DEFENDER_API_REJECTED_SUFFIX >>

defenderApiTopic ==
    << DEFENDER_API_JSON_REPORT_FORMAT,
       DEFENDER_API_JSON_REPORT_FORMAT \o DEFENDER_API_ACCEPTED_SUFFIX,
       DEFENDER_API_JSON_REPORT_FORMAT \o DEFENDER_API_REJECTED_SUFFIX,
       DEFENDER_API_CBOR_REPORT_FORMAT,
       DEFENDER_API_CBOR_REPORT_FORMAT \o DEFENDER_API_ACCEPTED_SUFFIX,
       DEFENDER_API_CBOR_REPORT_FORMAT \o DEFENDER_API_REJECTED_SUFFIX >>

defenderApiTopicLength ==
    << DEFENDER_API_JSON_REPORT_FORMAT_LENGTH,
       DEFENDER_API_JSON_REPORT_FORMAT_LENGTH + DEFENDER_API_ACCEPTED_SUFFIX_LENGTH,
       DEFENDER_API_JSON_REPORT_FORMAT_LENGTH + DEFENDER_API_REJECTED_SUFFIX_LENGTH,
       DEFENDER_API_CBOR_REPORT_FORMAT_LENGTH,
       DEFENDER_API_CBOR_REPORT_FORMAT_LENGTH + DEFENDER_API_ACCEPTED_SUFFIX_LENGTH,
       DEFENDER_API_CBOR_REPORT_FORMAT_LENGTH + DEFENDER_API_REJECTED_SUFFIX_LENGTH >>

(***************************************************************************)
(* C memory primitives.                                                    *)
(***************************************************************************)
NULL == "NULL"

\* The byte at C index i of array a; a read outside the array yields a byte
\* that no literal contains.
ByteAt(a, i) == IF i + 1 \in DOMAIN a THEN a[i + 1] ELSE "?"

\* memcpy( &a[ offset ], src, n ): the array afterwards.
memcpyBytes(a, offset, src, n) ==
    [k \in DOMAIN a |->
        IF k - 1 >= offset /\ k - 1 < offset + n THEN ByteAt(src, k - 1 - offset) ELSE a[k]]

\* Variant: the comparison ignores the case of letters, as strncasecmp does.
memcmpEqual_NoCase(a, offset, lit, n) ==
    LET upper == <<"A", "B", "C", "D", "E", "F", "G", "H", "I", "J", "K", "L", "M",
                  "N", "O", "P", "Q", "R", "S", "T", "U", "V", "W", "X", "Y", "Z">>
        lower == <<"a", "b", "c", "d", "e", "f", "g", "h", "i", "j", "k", "l", "m",
                  "n", "o", "p", "q", "r", "s", "t", "u", "v", "w", "x", "y", "z">>
        fold(b) == IF \E k \in 1 .. 26 : upper[k] = b
                   THEN lower[CHOOSE k \in 1 .. 26 : upper[k] = b]
                   ELSE b
    IN  \A k \in 0 .. (n - 1) : fold(ByteAt(a, offset + k)) = fold(ByteAt(lit, k))

\* memcmp( &a[ offset ], lit, n ) == 0
memcmpEqual(a, offset, lit, n) ==
    \A k \in 0 .. (n - 1) : ByteAt(a, offset + k) = ByteAt(lit, k)

\* The C indices a memcpy/memcmp of n bytes at offset touches.
Span(offset, n) == offset .. (offset + n - 1)

\* A destination array together with the set of C indices written so far.
\* memcpy( &w[ offset ], src, n ) copies the bytes and logs the indices.
memcpy(w, offset, src, n) ==
    [bytes |-> memcpyBytes(w.bytes, offset, src, n),
     written |-> w.written \cup Span(offset, n)]

(***************************************************************************)
(* defender.c: helpers of Defender_GetTopic.                               *)
(***************************************************************************)
\* Variant: the accepted topics are given the length of the publish topics.
getTopicLength_AcceptedAsPublish(thingNameLength, api) ==
    CASE api \in {DefenderJsonReportPublish, DefenderJsonReportAccepted} ->
            DEFENDER_API_JSON_REPORT_PUBLISH_LENGTH(thingNameLength)
      [] api = DefenderJsonReportRejected ->
            DEFENDER_API_JSON_REPORT_REJECTED_LENGTH(thingNameLength)
      [] api \in {DefenderCborReportPublish, DefenderCborReportAccepted} ->
            DEFENDER_API_CBOR_REPORT_PUBLISH_LENGTH(thingNameLength)
      [] OTHER ->
            DEFENDER_API_CBOR_REPORT_REJECTED_LENGTH(thingNameLength)

getTopicLength(thingNameLength, api) ==
    CASE api = DefenderJsonReportPublish ->
            DEFENDER_API_JSON_REPORT_PUBLISH_LENGTH(thingNameLength)
      [] api = DefenderJsonReportAccepted ->
            DEFENDER_API_JSON_REPORT_ACCEPTED_LENGTH(thingNameLength)
      [] api = DefenderJsonReportRejected ->
            DEFENDER_API_JSON_REPORT_REJECTED_LENGTH(thingNameLength)
      [] api = DefenderCborReportPublish ->
            DEFENDER_API_CBOR_REPORT_PUBLISH_LENGTH(thingNameLength)
      [] api = DefenderCborReportAccepted ->
            DEFENDER_API_CBOR_REPORT_ACCEPTED_LENGTH(thingNameLength)
      [] OTHER ->
            DEFENDER_API_CBOR_REPORT_REJECTED_LENGTH(thingNameLength)

\* Variant: the last case copies the accepted suffix instead of the rejected one.
writeFormatAndSuffix_RejectedAsAccepted(w, offset, api) ==
    LET format == IF api \in {DefenderJsonReportPublish, DefenderJsonReportAccepted,
                              DefenderJsonReportRejected}
                  THEN DEFENDER_API_JSON_REPORT_FORMAT
                  ELSE DEFENDER_API_CBOR_REPORT_FORMAT
        suffix == CASE api \in {DefenderJsonReportPublish, DefenderCborReportPublish} -> <<>>
                    [] api = DefenderJsonReportRejected -> DEFENDER_API_REJECTED_SUFFIX
                    [] OTHER -> DEFENDER_API_ACCEPTED_SUFFIX
    IN  memcpy(memcpy(w, offset, format, Len(format)),
               offset + Len(format), suffix, Len(suffix))

writeFormatAndSuffix(w, offset, api) ==
    CASE api = DefenderJsonReportPublish ->
            memcpy(w, offset, DEFENDER_API_JSON_REPORT_FORMAT,
                   DEFENDER_API_JSON_REPORT_FORMAT_LENGTH)
      [] api = DefenderJsonReportAccepted ->
            memcpy(memcpy(w, offset, DEFENDER_API_JSON_REPORT_FORMAT,
                          DEFENDER_API_JSON_REPORT_FORMAT_LENGTH),
                   offset + DEFENDER_API_JSON_REPORT_FORMAT_LENGTH,
                   DEFENDER_API_ACCEPTED_SUFFIX, DEFENDER_API_ACCEPTED_SUFFIX_LENGTH)
      [] api = DefenderJsonReportRejected ->
            memcpy(memcpy(w, offset, DEFENDER_API_JSON_REPORT_FORMAT,
                          DEFENDER_API_JSON_REPORT_FORMAT_LENGTH),
                   offset + DEFENDER_API_JSON_REPORT_FORMAT_LENGTH,
                   DEFENDER_API_REJECTED_SUFFIX, DEFENDER_API_REJECTED_SUFFIX_LENGTH)
      [] api = DefenderCborReportPublish ->
            memcpy(w, offset, DEFENDER_API_CBOR_REPORT_FORMAT,
                   DEFENDER_API_CBOR_REPORT_FORMAT_LENGTH)
      [] api = DefenderCborReportAccepted ->
            memcpy(memcpy(w, offset, DEFENDER_API_CBOR_REPORT_FORMAT,
                          DEFENDER_API_CBOR_REPORT_FORMAT_LENGTH),
                   offset + DEFENDER_API_CBOR_REPORT_FORMAT_LENGTH,
                   DEFENDER_API_ACCEPTED_SUFFIX, DEFENDER_API_ACCEPTED_SUFFIX_LENGTH)
      [] OTHER ->
            memcpy(memcpy(w, offset, DEFENDER_API_CBOR_REPORT_FORMAT,
                          DEFENDER_API_CBOR_REPORT_FORMAT_LENGTH),
                   offset + DEFENDER_API_CBOR_REPORT_FORMAT_LENGTH,
                   DEFENDER_API_REJECTED_SUFFIX, DEFENDER_API_REJECTED_SUFFIX_LENGTH)

\* The two assert statements at the top of getTopicLength.
getTopicLengthAssert(thingNameLength, api) ==
    /\ thingNameLength # 0 /\ thingNameLength <= DEFENDER_THINGNAME_MAX_LENGTH
    /\ api > DefenderInvalidTopic /\ api < DefenderMaxTopic

\* The two assert statements at the top of writeFormatAndSuffix.
writeFormatAndSuffixAssert(pBuffer, api) ==
    /\ pBuffer # NULL
    /\ api > DefenderInvalidTopic /\ api < DefenderMaxTopic

\* The switch of either function takes the branch labelled
\* "case DefenderCborReportRejected: default:": api is none of the five
\* other case labels.
SwitchDefaultBranch(api) ==
    api \notin {DefenderJsonReportPublish, DefenderJsonReportAccepted,
                DefenderJsonReportRejected, DefenderCborReportPublish,
                DefenderCborReportAccepted}

\* Variant: DefenderMaxTopic itself passes the parameter check.
GetTopicBadParameter_MaxTopicAllowed(pBuffer, pThingName, thingNameLength, api, pOutLength) ==
    \/ pBuffer = NULL
    \/ pThingName = NULL
    \/ thingNameLength = 0
    \/ thingNameLength > DEFENDER_THINGNAME_MAX_LENGTH
    \/ api <= DefenderInvalidTopic
    \/ api > DefenderMaxTopic
    \/ pOutLength = NULL

\* Variant: the upper bound on the thing name length is not checked.
GetTopicBadParameter_NoUpperBound(pBuffer, pThingName, thingNameLength, api, pOutLength) ==
    \/ pBuffer = NULL
    \/ pThingName = NULL
    \/ thingNameLength = 0
    \/ api <= DefenderInvalidTopic
    \/ api >= DefenderMaxTopic
    \/ pOutLength = NULL

\* The parameter check at the top of Defender_GetTopic.
GetTopicBadParameter(pBuffer, pThingName, thingNameLength, api, pOutLength) ==
    \/ pBuffer = NULL
    \/ pThingName = NULL
    \/ thingNameLength = 0
    \/ thingNameLength > DEFENDER_THINGNAME_MAX_LENGTH
    \/ api <= DefenderInvalidTopic
    \/ api >= DefenderMaxTopic
    \/ pOutLength = NULL

\* Variant: a buffer of exactly the topic length is refused.
GetTopicBufferTooSmall_OffByOne(bufferLength, topicLength) == bufferLength <= topicLength

\* The capacity check of Defender_GetTopic.
GetTopicBufferTooSmall(bufferLength, topicLength) == bufferLength < topicLength

\* The four writes of Defender_GetTopic, in order; w is the destination, the
\* result carries the destination afterwards, the final offset and the C
\* indices of the thing name that were read.
GetTopicWrite(w, pThingNameBytes, thingNameLength, api) ==
    LET w1 == memcpy(w, 0, DEFENDER_API_PREFIX, DEFENDER_API_PREFIX_LENGTH)
        offset1 == 0 + DEFENDER_API_PREFIX_LENGTH
        w2 == memcpy(w1, offset1, pThingNameBytes, thingNameLength)
        offset2 == offset1 + thingNameLength
        w3 == memcpy(w2, offset2, DEFENDER_API_BRIDGE, DEFENDER_API_BRIDGE_LENGTH)
        offset3 == offset2 + DEFENDER_API_BRIDGE_LENGTH
    IN  [w |-> writeFormatAndSuffix(w3, offset3, api), offset |-> offset3,
         nameRead |-> Span(0, thingNameLength)]

(***************************************************************************)
(* defender.c: helpers of Defender_MatchTopic.  pTopic is the topic array, *)
(* offset the C index pRemainingTopic points at.  Each helper yields its   *)
(* return value, its output and the C indices of the topic it may read.    *)
(***************************************************************************)
matchPrefix(pTopic, offset, remainingTopicLength) ==
    IF remainingTopicLength >= DEFENDER_API_PREFIX_LENGTH
    THEN [ret |-> IF memcmpEqual(pTopic, offset, DEFENDER_API_PREFIX,
                                 DEFENDER_API_PREFIX_LENGTH)
                  THEN DefenderSuccess ELSE DefenderNoMatch,
          read |-> Span(offset, DEFENDER_API_PREFIX_LENGTH)]
    ELSE [ret |-> DefenderNoMatch, read |-> {}]

\* The for loop of extractThingNameLength: the value of i when it ends, which
\* is the least i < remainingTopicLength with a '/' at pRemainingTopic[ i ],
\* or remainingTopicLength when there is none (i never exceeds 65535).
FirstSlash(pTopic, offset, remainingTopicLength) ==
    LET slashes == {i \in 0 .. (remainingTopicLength - 1) : ByteAt(pTopic, offset + i) = "/"}
    IN  IF slashes = {}
        THEN remainingTopicLength
        ELSE CHOOSE i \in slashes : \A j \in slashes : i <= j

\* Variant: the length reported includes the '/' that ends the thing name.
extractThingNameLength_CountsSlash(pTopic, offset, remainingTopicLength) ==
    LET i == FirstSlash(pTopic, offset, remainingTopicLength)
        read == IF i < remainingTopicLength THEN Span(offset, i + 1) ELSE Span(offset, i)
    IN  IF i > 0
        THEN [ret |-> DefenderSuccess, written |-> TRUE, thingNameLength |-> i + 1, read |-> read]
        ELSE [ret |-> DefenderNoMatch, written |-> FALSE, thingNameLength |-> 0, read |-> read]

\* Variant: the loop result is accepted without the i > 0U test.
extractThingNameLength_AllowsEmpty(pTopic, offset, remainingTopicLength) ==
    LET i == FirstSlash(pTopic, offset, remainingTopicLength)
        read == IF i < remainingTopicLength THEN Span(offset, i + 1) ELSE Span(offset, i)
    IN  [ret |-> DefenderSuccess, written |-> TRUE, thingNameLength |-> i, read |-> read]

\* Variant: a thing name longer than DEFENDER_THINGNAME_MAX_LENGTH is refused.
extractThingNameLength_MaxLength(pTopic, offset, remainingTopicLength) ==
    LET i == FirstSlash(pTopic, offset, remainingTopicLength)
        read == IF i < remainingTopicLength THEN Span(offset, i + 1) ELSE Span(offset, i)
    IN  IF i > 0 /\ i <= DEFENDER_THINGNAME_MAX_LENGTH
        THEN [ret |-> DefenderSuccess, written |-> TRUE, thingNameLength |-> i, read |-> read]
        ELSE [ret |-> DefenderNoMatch, written |-> FALSE, thingNameLength |-> 0, read |-> read]

\* Variant: a scan that finds no '/' counts as a zero-length thing name.
extractThingNameLength_NeedsSlash(pTopic, offset, remainingTopicLength) ==
    LET i == FirstSlash(pTopic, offset, remainingTopicLength)
        read == IF i < remainingTopicLength THEN Span(offset, i + 1) ELSE Span(offset, i)
    IN  IF i > 0 /\ i < remainingTopicLength
        THEN [ret |-> DefenderSuccess, written |-> TRUE, thingNameLength |-> i, read |-> read]
        ELSE [ret |-> DefenderNoMatch, written |-> FALSE, thingNameLength |-> 0, read |-> read]

extractThingNameLength(pTopic, offset, remainingTopicLength) ==
    LET i == FirstSlash(pTopic, offset, remainingTopicLength)
        \* every index the loop compared: 0..i, or 0..i-1 when it ran off the end
        read == IF i < remainingTopicLength THEN Span(offset, i + 1) ELSE Span(offset, i)
    IN  IF i > 0
        THEN [ret |-> DefenderSuccess, written |-> TRUE, thingNameLength |-> i, read |-> read]
        ELSE [ret |-> DefenderNoMatch, written |-> FALSE, thingNameLength |-> 0, read |-> read]

\* Variant: ret starts as DefenderError, not DefenderNoMatch.
matchBridge_InitError(pTopic, offset, remainingTopicLength) ==
    IF remainingTopicLength >= DEFENDER_API_BRIDGE_LENGTH
    THEN [ret |-> IF memcmpEqual(pTopic, offset, DEFENDER_API_BRIDGE,
                                 DEFENDER_API_BRIDGE_LENGTH)
                  THEN DefenderSuccess ELSE DefenderError,
          read |-> Span(offset, DEFENDER_API_BRIDGE_LENGTH)]
    ELSE [ret |-> DefenderError, read |-> {}]

\* Variant: the bytes are compared without the test of the remaining length.
matchBridge_NoLengthCheck(pTopic, offset, remainingTopicLength) ==
    [ret |-> IF memcmpEqual(pTopic, offset, DEFENDER_API_BRIDGE, DEFENDER_API_BRIDGE_LENGTH)
             THEN DefenderSuccess ELSE DefenderNoMatch,
     read |-> Span(offset, DEFENDER_API_BRIDGE_LENGTH)]

matchBridge(pTopic, offset, remainingTopicLength) ==
    IF remainingTopicLength >= DEFENDER_API_BRIDGE_LENGTH
    THEN [ret |-> IF memcmpEqual(pTopic, offset, DEFENDER_API_BRIDGE,
                                 DEFENDER_API_BRIDGE_LENGTH)
                  THEN DefenderSuccess ELSE DefenderNoMatch,
          read |-> Span(offset, DEFENDER_API_BRIDGE_LENGTH)]
    ELSE [ret |-> DefenderNoMatch, read |-> {}]

\* Variant: the entry matches when the remaining bytes merely start with it.
matchApiEntry_Prefix(pTopic, offset, remainingTopicLength, i) ==
    /\ remainingTopicLength >= defenderApiTopicLength[i]
    /\ memcmpEqual(pTopic, offset, defenderApiTopic[i], defenderApiTopicLength[i])

\* Variant: the entry is compared with the last bytes of the topic.
matchApiEntry_Suffix(pTopic, offset, remainingTopicLength, i) ==
    /\ remainingTopicLength >= defenderApiTopicLength[i]
    /\ memcmpEqual(pTopic, offset + remainingTopicLength - defenderApiTopicLength[i],
                   defenderApiTopic[i], defenderApiTopicLength[i])

\* The condition of the if inside the loop of matchApi, for table index i
\* (1-based here, 0-based in C).
matchApiEntry(pTopic, offset, remainingTopicLength, i) ==
    /\ remainingTopicLength = defenderApiTopicLength[i]
    /\ memcmpEqual(pTopic, offset, defenderApiTopic[i], defenderApiTopicLength[i])

\* The loop of matchApi from table index i on.
RECURSIVE matchApiFrom(_, _, _, _)
matchApiFrom(pTopic, offset, remainingTopicLength, i) ==
    IF i > Len(defenderApi)
    THEN [ret |-> DefenderNoMatch, written |-> FALSE, api |-> DefenderInvalidTopic, read |-> {}]
    ELSE LET read == IF remainingTopicLength = defenderApiTopicLength[i]
                     THEN Span(offset, defenderApiTopicLength[i]) ELSE {}
         IN  IF matchApiEntry(pTopic, offset, remainingTopicLength, i)
             THEN [ret |-> DefenderSuccess, written |-> TRUE, api |-> defenderApi[i],
                   read |-> read]
             ELSE LET rest == matchApiFrom(pTopic, offset, remainingTopicLength, i + 1)
                  IN  [rest EXCEPT !.read = read \cup rest.read]

matchApi(pTopic, offset, remainingTopicLength) ==
    matchApiFrom(pTopic, offset, remainingTopicLength, 1)

\* Variant: && in place of ||.
MatchTopicBadParameter_And(pTopic, pOutApi) == pTopic = NULL /\ pOutApi = NULL

\* The parameter check at the top of Defender_MatchTopic.
MatchTopicBadParameter(pTopic, pOutApi) == pTopic = NULL \/ pOutApi = NULL

\* *p = v for a caller slot p, logging the store.  The code never stores
\* through NULL; if it did, the log would show it and no slot would change.
Store(m, p, v) ==
    IF p = NULL
    THEN [m EXCEPT !.stores = @ \cup {p}]
    ELSE [m EXCEPT ![p] = v, !.stores = @ \cup {p}]

\* The array a pointer points at; nothing is mapped at NULL.
Deref(m, p) == IF p = NULL THEN <<>> ELSE m[p]

\* The memory after the array at p has become bytes.
StoreArray(m, p, bytes) == IF p = NULL THEN m ELSE [m EXCEPT ![p] = bytes]

\* Variant: the thing name is reported at the consumed offset, not after the prefix.
MatchTopicOutputs_ConsumedOffset(m, f) ==
    LET m1 == IF f.ret = DefenderSuccess /\ f.ppOutThingName # NULL
              THEN Store(m, f.ppOutThingName, f.consumedTopicLength)
              ELSE m
        m2 == IF f.ret = DefenderSuccess /\ f.pOutThingNameLength # NULL
              THEN Store(m1, f.pOutThingNameLength, f.thingNameLength)
              ELSE m1
    IN  IF f.ret = DefenderNoMatch
        THEN Store(m2, f.pOutApi, DefenderInvalidTopic)
        ELSE m2

\* Variant: the variant slot is not reset when the topic does not match.
MatchTopicOutputs_NoSentinel(m, f) ==
    LET m1 == IF f.ret = DefenderSuccess /\ f.ppOutThingName # NULL
              THEN Store(m, f.ppOutThingName, DEFENDER_API_PREFIX_LENGTH)
              ELSE m
    IN  IF f.ret = DefenderSuccess /\ f.pOutThingNameLength # NULL
        THEN Store(m1, f.pOutThingNameLength, f.thingNameLength)
        ELSE m1

\* The tail of Defender_MatchTopic: the updates of the out parameters once
\* the stages have run, applied to the caller memory m for the call frame f.
MatchTopicOutputs(m, f) ==
    LET m1 == IF f.ret = DefenderSuccess /\ f.ppOutThingName # NULL
              THEN Store(m, f.ppOutThingName, DEFENDER_API_PREFIX_LENGTH)
              ELSE m
        m2 == IF f.ret = DefenderSuccess /\ f.pOutThingNameLength # NULL
              THEN Store(m1, f.pOutThingNameLength, f.thingNameLength)
              ELSE m1
    IN  IF f.ret = DefenderNoMatch
        THEN Store(m2, f.pOutApi, DefenderInvalidTopic)
        ELSE m2

(***************************************************************************)
(* Inputs of the calls.                                                    *)
(***************************************************************************)
IdBytes == {"/", "T"}

Fill(b, n) == [k \in 1 .. n |-> b]

\* Every byte string of length 0..n over IdBytes.
Names(n) == UNION {[1 .. k -> IdBytes] : k \in 0 .. n}

MyThing == <<"M", "y", "T", "h", "i", "n", "g">>

\* Thing names around the maximum length, one of them with a '/' inside.
LongNames ==
    { Fill("T", DEFENDER_THINGNAME_MAX_LENGTH - 1),
      Fill("T", DEFENDER_THINGNAME_MAX_LENGTH),
      Fill("T", DEFENDER_THINGNAME_MAX_LENGTH + 1),
      [Fill("T", DEFENDER_THINGNAME_MAX_LENGTH) EXCEPT ![64] = "/"] }

\* Thing names that embed the bridge literal, alone and followed by a
\* variant string.
BridgeNames ==
    { <<"T">> \o DEFENDER_API_BRIDGE,
      <<"T">> \o DEFENDER_API_BRIDGE \o DEFENDER_API_JSON_REPORT_FORMAT }

ThingNames == Names(MaxIdLen) \cup LongNames \cup {MyThing} \cup BridgeNames

\* Capacities around the topic lengths of the longest thing names.
LongBufferLengths == {161, 162, 163, 170, 171, 172}

BufferLengths == {0, 12} \cup (33 .. MaxBufferLength) \cup LongBufferLengths

\* Every value of DefenderTopic_t and one integer beyond each end.
ApiValues == (DefenderInvalidTopic - 1) .. (DefenderMaxTopic + 1)

\* What the caller's slots hold before a call.
FillByte == "#"
OutApiPriors == {DefenderInvalidTopic, DefenderCborReportAccepted}
SlotPriors == [outLength |-> 0, outThingName |-> -1, outThingNameLength |-> 65535]

\* Topics handed to the matcher: a prefix part, a thing name, a bridge part
\* and a format/suffix part, each either right or damaged.
PrefixParts ==
    { DEFENDER_API_PREFIX,
      [DEFENDER_API_PREFIX EXCEPT ![12] = "x"],
      SubSeq(DEFENDER_API_PREFIX, 1, 11) }

BridgeParts ==
    { DEFENDER_API_BRIDGE,
      [DEFENDER_API_BRIDGE EXCEPT ![2] = "D"],
      SubSeq(DEFENDER_API_BRIDGE, 1, 17) }

\* The non-topic of the specification's examples: prefix and thing name only.
MyThingOnly == DEFENDER_API_PREFIX \o MyThing

ApiParts ==
    { defenderApiTopic[i] : i \in DOMAIN defenderApiTopic }
        \cup { <<>>, <<"j", "s", "o">>, <<"j", "s", "o", "n", "2">>, <<"j", "s", "o", "n", "/">> }

TopicNames == Names(MaxTopicIdLen) \cup {Fill("T", DEFENDER_THINGNAME_MAX_LENGTH + 1)}

\* Topics at the edges of the grammar: nothing at all, the prefix alone, a
\* topic with a byte before or after it, literals in another case, and a
\* variant string followed by one more level.
JsonTopicOfT ==
    DEFENDER_API_PREFIX \o <<"T">> \o DEFENDER_API_BRIDGE \o DEFENDER_API_JSON_REPORT_FORMAT

EdgeTopics ==
    { <<>>,
      DEFENDER_API_PREFIX,
      <<" ">> \o JsonTopicOfT,
      JsonTopicOfT \o <<" ">>,
      JsonTopicOfT \o DEFENDER_API_ACCEPTED_SUFFIX \o <<"/">>,
      [JsonTopicOfT EXCEPT ![2] = "A"],
      [JsonTopicOfT EXCEPT ![Len(JsonTopicOfT)] = "N"],
      JsonTopicOfT \o <<"/", "A", "c", "c", "e", "p", "t", "e", "d">> }

\* Topics of the greatest length a uint16_t topicLength can express: one of
\* the grammar, and one with no '/' after the prefix.
UINT16_MAX == UINT16 - 1

LongestTopics ==
    { DEFENDER_API_PREFIX
        \o Fill("0", UINT16_MAX - DEFENDER_API_JSON_REPORT_PUBLISH_LENGTH(0))
        \o DEFENDER_API_BRIDGE \o DEFENDER_API_JSON_REPORT_FORMAT,
      DEFENDER_API_PREFIX \o Fill("0", UINT16_MAX - DEFENDER_API_PREFIX_LENGTH) }

Topics ==
    { p \o n \o b \o a : p \in PrefixParts, n \in TopicNames, b \in BridgeParts, a \in ApiParts }
        \cup {MyThingOnly} \cup EdgeTopics

(***************************************************************************)
(* State.                                                                  *)
(*   pc    where the running call is                                       *)
(*   mem   the caller's objects: buffer, thingName, outLength (GetTopic),  *)
(*         topic, outApi, outThingName, outThingNameLength (MatchTopic),   *)
(*         and stores, the slots stored through since the call began       *)
(*   mem0  mem as it was when the running call began                       *)
(*   gt    parameters and locals of Defender_GetTopic                      *)
(*   mt    parameters and locals of Defender_MatchTopic                    *)
(*   acc   the C indices the running call wrote in the buffer, read in the *)
(*         thing name and read in the topic                                *)
(***************************************************************************)
NoAccess == [written |-> {}, nameRead |-> {}, topicRead |-> {}]

Init ==
    /\ pc = "idle"
    /\ mem = [buffer |-> <<>>, thingName |-> <<>>, outLength |-> SlotPriors.outLength,
              topic |-> <<>>, outApi |-> DefenderInvalidTopic,
              outThingName |-> SlotPriors.outThingName,
              outThingNameLength |-> SlotPriors.outThingNameLength,
              stores |-> {}]
    /\ mem0 = mem
    /\ gt = [pBuffer |-> NULL, bufferLength |-> 0, pThingName |-> NULL,
             thingNameLength |-> 0, api |-> DefenderInvalidTopic, pOutLength |-> NULL,
             ret |-> DefenderError, topicLength |-> 0, offset |-> 0]
    /\ mt = [pTopic |-> NULL, topicLength |-> 0, pOutApi |-> NULL,
             ppOutThingName |-> NULL, pOutThingNameLength |-> NULL,
             ret |-> DefenderError, remainingTopicLength |-> 0,
             consumedTopicLength |-> 0, thingNameLength |-> 0]
    /\ acc = NoAccess

(***************************************************************************)
(* Defender_GetTopic.                                                      *)
(***************************************************************************)
\* The caller allocates the buffer, the thing name and the length slot (or
\* passes NULL for any of them) and enters the function.
GT_Call ==
    /\ pc = "idle"
    /\ \E pBuffer \in {NULL, "buffer"}, bufferLength \in BufferLengths,
          pThingName \in {NULL, "thingName"}, name \in ThingNames,
          api \in ApiValues, pOutLength \in {NULL, "outLength"} :
            /\ mem' = [mem EXCEPT !.buffer = Fill(FillByte, bufferLength),
                                  !.thingName = name,
                                  !.outLength = SlotPriors.outLength,
                                  !.stores = {}]
            /\ gt' = [pBuffer |-> pBuffer, bufferLength |-> bufferLength,
                      pThingName |-> pThingName, thingNameLength |-> Len(name),
                      api |-> api, pOutLength |-> pOutLength,
                      ret |-> DefenderSuccess, topicLength |-> 0, offset |-> 0]
    /\ mem0' = mem'
    /\ acc' = NoAccess
    /\ pc' = "gt_params"
    /\ UNCHANGED mt

GT_CheckParams ==
    /\ pc = "gt_params"
    /\ gt' = IF GetTopicBadParameter(gt.pBuffer, gt.pThingName, gt.thingNameLength,
                                     gt.api, gt.pOutLength)
             THEN [gt EXCEPT !.ret = DefenderBadParameter]
             ELSE gt
    /\ pc' = "gt_length"
    /\ UNCHANGED <<mem, mem0, mt, acc>>

GT_CheckLength ==
    /\ pc = "gt_length"
    /\ gt' = IF gt.ret = DefenderSuccess
             THEN LET topicLength == getTopicLength(gt.thingNameLength, gt.api)
                  IN  [gt EXCEPT !.topicLength = topicLength,
                                 !.ret = IF GetTopicBufferTooSmall(gt.bufferLength, topicLength)
                                         THEN DefenderBufferTooSmall
                                         ELSE @]
             ELSE gt
    /\ pc' = "gt_write"
    /\ UNCHANGED <<mem, mem0, mt, acc>>

GT_WriteTopic ==
    /\ pc = "gt_write"
    /\ IF gt.ret = DefenderSuccess
       THEN LET r == GetTopicWrite([bytes |-> Deref(mem, gt.pBuffer), written |-> acc.written],
                                   Deref(mem, gt.pThingName), gt.thingNameLength, gt.api)
            IN  /\ mem' = Store(StoreArray(mem, gt.pBuffer, r.w.bytes),
                                gt.pOutLength, gt.topicLength)
                /\ acc' = [acc EXCEPT !.written = r.w.written,
                                      !.nameRead = @ \cup r.nameRead]
                /\ gt' = [gt EXCEPT !.offset = r.offset]
       ELSE UNCHANGED <<mem, acc, gt>>
    /\ pc' = "gt_done"
    /\ UNCHANGED <<mem0, mt>>

(***************************************************************************)
(* Defender_MatchTopic.                                                    *)
(***************************************************************************)
NewMatchFrame(pTopic, topicLength, pOutApi, ppOutThingName, pOutThingNameLength) ==
    [pTopic |-> pTopic, topicLength |-> topicLength, pOutApi |-> pOutApi,
     ppOutThingName |-> ppOutThingName, pOutThingNameLength |-> pOutThingNameLength,
     ret |-> DefenderSuccess, remainingTopicLength |-> 0,
     consumedTopicLength |-> 0, thingNameLength |-> 0]

\* The caller hands an incoming topic to the matcher.
MT_Call ==
    /\ pc = "idle"
    /\ \E topic \in Topics, pTopic \in {NULL, "topic"}, pOutApi \in {NULL, "outApi"},
          ppOutThingName \in {NULL, "outThingName"},
          pOutThingNameLength \in {NULL, "outThingNameLength"},
          apiPrior \in OutApiPriors :
            /\ mem' = [mem EXCEPT !.topic = topic,
                                  !.outApi = apiPrior,
                                  !.outThingName = SlotPriors.outThingName,
                                  !.outThingNameLength = SlotPriors.outThingNameLength,
                                  !.stores = {}]
            /\ mt' = NewMatchFrame(pTopic, Len(topic), pOutApi,
                                   ppOutThingName, pOutThingNameLength)
    /\ mem0' = mem'
    /\ acc' = NoAccess
    /\ pc' = "mt_params"
    /\ UNCHANGED gt

\* The caller hands the topic a successful Defender_GetTopic has just
\* written, with the length it reported, to the matcher.
MT_CallOnBuffer ==
    /\ pc = "gt_done"
    /\ gt.ret = DefenderSuccess
    /\ \E ppOutThingName \in {NULL, "outThingName"},
          pOutThingNameLength \in {NULL, "outThingNameLength"},
          apiPrior \in OutApiPriors :
            /\ mem' = [mem EXCEPT !.outApi = apiPrior,
                                  !.outThingName = SlotPriors.outThingName,
                                  !.outThingNameLength = SlotPriors.outThingNameLength,
                                  !.stores = {}]
            /\ mt' = NewMatchFrame(gt.pBuffer, mem.outLength % UINT16, "outApi",
                                   ppOutThingName, pOutThingNameLength)
    /\ mem0' = mem'
    /\ acc' = [acc EXCEPT !.topicRead = {}]
    /\ pc' = "mt_params"
    /\ UNCHANGED gt

MT_CheckParams ==
    /\ pc = "mt_params"
    /\ mt' = [mt EXCEPT !.ret = IF MatchTopicBadParameter(mt.pTopic, mt.pOutApi)
                                THEN DefenderBadParameter
                                ELSE @,
                        !.remainingTopicLength = mt.topicLength,
                        !.consumedTopicLength = 0]
    /\ pc' = "mt_prefix"
    /\ UNCHANGED <<mem, mem0, gt, acc>>

\* remainingTopicLength -= n; consumedTopicLength += n; in uint16_t.
Consume(f, n) ==
    [f EXCEPT !.remainingTopicLength = (@ - n) % UINT16,
              !.consumedTopicLength = (@ + n) % UINT16]

MT_MatchPrefix ==
    /\ pc = "mt_prefix"
    /\ IF mt.ret = DefenderSuccess
       THEN LET r == matchPrefix(Deref(mem, mt.pTopic), mt.consumedTopicLength,
                                 mt.remainingTopicLength)
                f == [mt EXCEPT !.ret = r.ret]
            IN  /\ mt' = IF r.ret = DefenderSuccess
                         THEN Consume(f, DEFENDER_API_PREFIX_LENGTH)
                         ELSE f
                /\ acc' = [acc EXCEPT !.topicRead = @ \cup r.read]
       ELSE UNCHANGED <<mt, acc>>
    /\ pc' = "mt_name"
    /\ UNCHANGED <<mem, mem0, gt>>

MT_ExtractThingName ==
    /\ pc = "mt_name"
    /\ IF mt.ret = DefenderSuccess
       THEN LET r == extractThingNameLength(Deref(mem, mt.pTopic), mt.consumedTopicLength,
                                            mt.remainingTopicLength)
                f == [mt EXCEPT !.ret = r.ret,
                                !.thingNameLength = IF r.written THEN r.thingNameLength ELSE @]
            IN  /\ mt' = IF r.ret = DefenderSuccess
                         THEN Consume(f, f.thingNameLength)
                         ELSE f
                /\ acc' = [acc EXCEPT !.topicRead = @ \cup r.read]
       ELSE UNCHANGED <<mt, acc>>
    /\ pc' = "mt_bridge"
    /\ UNCHANGED <<mem, mem0, gt>>

MT_MatchBridge ==
    /\ pc = "mt_bridge"
    /\ IF mt.ret = DefenderSuccess
       THEN LET r == matchBridge(Deref(mem, mt.pTopic), mt.consumedTopicLength,
                                 mt.remainingTopicLength)
                f == [mt EXCEPT !.ret = r.ret]
            IN  /\ mt' = IF r.ret = DefenderSuccess
                         THEN Consume(f, DEFENDER_API_BRIDGE_LENGTH)
                         ELSE f
                /\ acc' = [acc EXCEPT !.topicRead = @ \cup r.read]
       ELSE UNCHANGED <<mt, acc>>
    /\ pc' = "mt_api"
    /\ UNCHANGED <<mem, mem0, gt>>

MT_MatchApi ==
    /\ pc = "mt_api"
    /\ IF mt.ret = DefenderSuccess
       THEN LET r == matchApi(Deref(mem, mt.pTopic), mt.consumedTopicLength,
                              mt.remainingTopicLength)
            IN  /\ mt' = [mt EXCEPT !.ret = r.ret]
                /\ mem' = IF r.written THEN Store(mem, mt.pOutApi, r.api) ELSE mem
                /\ acc' = [acc EXCEPT !.topicRead = @ \cup r.read]
       ELSE UNCHANGED <<mt, mem, acc>>
    /\ pc' = "mt_out"
    /\ UNCHANGED <<mem0, gt>>

MT_Outputs ==
    /\ pc = "mt_out"
    /\ mem' = MatchTopicOutputs(mem, mt)
    /\ pc' = "mt_done"
    /\ UNCHANGED <<mem0, gt, mt, acc>>

Next ==
    \/ GT_Call
    \/ GT_CheckParams
    \/ GT_CheckLength
    \/ GT_WriteTopic
    \/ MT_Call
    \/ MT_CallOnBuffer
    \/ MT_CheckParams
    \/ MT_MatchPrefix
    \/ MT_ExtractThingName
    \/ MT_MatchBridge
    \/ MT_MatchApi
    \/ MT_Outputs

Spec == Init /\ [][Next]_vars

(***************************************************************************)
(* The same calls, and calls of the matcher on the longest topics.         *)
(***************************************************************************)
\* The caller hands one of the longest topics to the matcher.
MT_CallLongest ==
    /\ pc = "idle"
    /\ \E topic \in LongestTopics, pTopic \in {NULL, "topic"},
          ppOutThingName \in {NULL, "outThingName"},
          pOutThingNameLength \in {NULL, "outThingNameLength"} :
            /\ mem' = [mem EXCEPT !.topic = topic,
                                  !.outApi = DefenderCborReportAccepted,
                                  !.outThingName = SlotPriors.outThingName,
                                  !.outThingNameLength = SlotPriors.outThingNameLength,
                                  !.stores = {}]
            /\ mt' = NewMatchFrame(pTopic, Len(topic), "outApi",
                                   ppOutThingName, pOutThingNameLength)
    /\ mem0' = mem'
    /\ acc' = NoAccess
    /\ pc' = "mt_params"
    /\ UNCHANGED gt

NextLong == Next \/ MT_CallLongest

SpecLong == Init /\ [][NextLong]_vars

(***************************************************************************)
(* Concurrent calls.  The library keeps no state of its own: every call    *)
(* works on its parameters, its automatic variables and the objects its    *)
(* pointer parameters point at.  Here NumThreads callers each make one     *)
(* call, and the stages of the calls interleave.  The variables hold, per  *)
(* caller or frame:                                                        *)
(*   pc    where the caller's call is                                      *)
(*   gt,mt the frames of the calls, indexed by FrameOf                     *)
(*   mem   one memory with every caller's objects, and the stores log      *)
(*   mem0  each caller's objects as they were when its call began          *)
(*   acc   the call each caller made: function, frame at entry, and        *)
(*         whether another call was running when it began                  *)
(***************************************************************************)
NumThreads == 2

Threads == 1 .. NumThreads

Objects ==
    {"buffer", "thingName", "outLength", "topic", "outApi", "outThingName",
     "outThingNameLength"}

\* The object o of caller t; callers share no object.
ObjName(t, o) == o \o ToString(t)

ObjNames == {ObjName(t, o) : t \in Threads, o \in Objects}

\* Variant: the variables of the functions are static, one copy for all calls.
FrameOf_Static(t) == 1

\* The frame of caller t's call: the parameters and the automatic variables
\* ret, topicLength, offset, remainingTopicLength, consumedTopicLength and
\* thingNameLength belong to the call.
FrameOf(t) == t

NoGetTopicFrame ==
    [pBuffer |-> NULL, bufferLength |-> 0, pThingName |-> NULL,
     thingNameLength |-> 0, api |-> DefenderInvalidTopic, pOutLength |-> NULL,
     ret |-> DefenderError, topicLength |-> 0, offset |-> 0]

NoMatchTopicFrame == NewMatchFrame(NULL, 0, NULL, NULL, NULL)

\* One stage of Defender_GetTopic on frame g and memory h.
GetTopicStep(stage, g, h) ==
    CASE stage = "gt_params" ->
            [pc |-> "gt_length",
             gt |-> IF GetTopicBadParameter(g.pBuffer, g.pThingName, g.thingNameLength,
                                            g.api, g.pOutLength)
                    THEN [g EXCEPT !.ret = DefenderBadParameter]
                    ELSE g,
             mem |-> h]
      [] stage = "gt_length" ->
            [pc |-> "gt_write",
             gt |-> IF g.ret = DefenderSuccess
                    THEN LET topicLength == getTopicLength(g.thingNameLength, g.api)
                         IN  [g EXCEPT !.topicLength = topicLength,
                                       !.ret = IF GetTopicBufferTooSmall(g.bufferLength,
                                                                         topicLength)
                                               THEN DefenderBufferTooSmall
                                               ELSE @]
                    ELSE g,
             mem |-> h]
      [] stage = "gt_write" ->
            IF g.ret = DefenderSuccess
            THEN LET r == GetTopicWrite([bytes |-> Deref(h, g.pBuffer), written |-> {}],
                                        Deref(h, g.pThingName), g.thingNameLength, g.api)
                 IN  [pc |-> "gt_done",
                      gt |-> [g EXCEPT !.offset = r.offset],
                      mem |-> Store(StoreArray(h, g.pBuffer, r.w.bytes),
                                    g.pOutLength, g.topicLength)]
            ELSE [pc |-> "gt_done", gt |-> g, mem |-> h]

\* One of the three matching stages that consume what they matched.
MatchStage(m, r, n) ==
    IF r.ret = DefenderSuccess
    THEN Consume([m EXCEPT !.ret = r.ret], n)
    ELSE [m EXCEPT !.ret = r.ret]

\* One stage of Defender_MatchTopic on frame m and memory h.
MatchTopicStep(stage, m, h) ==
    CASE stage = "mt_params" ->
            [pc |-> "mt_prefix",
             mt |-> [m EXCEPT !.ret = IF MatchTopicBadParameter(m.pTopic, m.pOutApi)
                                      THEN DefenderBadParameter
                                      ELSE @,
                              !.remainingTopicLength = m.topicLength,
                              !.consumedTopicLength = 0],
             mem |-> h]
      [] stage = "mt_prefix" ->
            [pc |-> "mt_name",
             mt |-> IF m.ret = DefenderSuccess
                    THEN MatchStage(m, matchPrefix(Deref(h, m.pTopic), m.consumedTopicLength,
                                                   m.remainingTopicLength),
                                    DEFENDER_API_PREFIX_LENGTH)
                    ELSE m,
             mem |-> h]
      [] stage = "mt_name" ->
            [pc |-> "mt_bridge",
             mt |-> IF m.ret = DefenderSuccess
                    THEN LET r == extractThingNameLength(Deref(h, m.pTopic),
                                                         m.consumedTopicLength,
                                                         m.remainingTopicLength)
                             f == [m EXCEPT !.thingNameLength =
                                                IF r.written THEN r.thingNameLength ELSE @]
                         IN  MatchStage(f, r, f.thingNameLength)
                    ELSE m,
             mem |-> h]
      [] stage = "mt_bridge" ->
            [pc |-> "mt_api",
             mt |-> IF m.ret = DefenderSuccess
                    THEN MatchStage(m, matchBridge(Deref(h, m.pTopic), m.consumedTopicLength,
                                                   m.remainingTopicLength),
                                    DEFENDER_API_BRIDGE_LENGTH)
                    ELSE m,
             mem |-> h]
      [] stage = "mt_api" ->
            IF m.ret = DefenderSuccess
            THEN LET r == matchApi(Deref(h, m.pTopic), m.consumedTopicLength,
                                   m.remainingTopicLength)
                 IN  [pc |-> "mt_out",
                      mt |-> [m EXCEPT !.ret = r.ret],
                      mem |-> IF r.written THEN Store(h, m.pOutApi, r.api) ELSE h]
            ELSE [pc |-> "mt_out", mt |-> m, mem |-> h]
      [] stage = "mt_out" ->
            [pc |-> "mt_done", mt |-> m, mem |-> MatchTopicOutputs(h, m)]

\* What the concurrent callers pass: thing name "T", a variant that is valid
\* or not, a buffer that fits the topic or is one byte short of the longer
\* one; a topic that matches, one with a byte too many and one that ends
\* after the thing name.
ParApis == {DefenderJsonReportAccepted, DefenderCborReportPublish, DefenderMaxTopic}
ParBufferLengths ==
    { DEFENDER_API_JSON_REPORT_ACCEPTED_LENGTH(1) - 1,
      DEFENDER_API_JSON_REPORT_ACCEPTED_LENGTH(1) }
ParTopics ==
    { JsonTopicOfT \o DEFENDER_API_REJECTED_SUFFIX,
      JsonTopicOfT \o <<" ">>,
      MyThingOnly }

Running(stage) == stage \notin {"idle", "gt_done", "mt_done"}

InitPar ==
    /\ pc = [t \in Threads |-> "idle"]
    /\ mem = [n \in ObjNames \cup {"stores"} |-> IF n = "stores" THEN {} ELSE 0]
    /\ mem0 = mem
    /\ gt = [k \in Threads |-> NoGetTopicFrame]
    /\ mt = [k \in Threads |-> NoMatchTopicFrame]
    /\ acc = [t \in Threads |->
                [fn |-> "none", gt |-> NoGetTopicFrame, mt |-> NoMatchTopicFrame,
                 overlapped |-> FALSE]]

\* Caller t sets up its own buffer, thing name and length slot and enters
\* Defender_GetTopic.
P_CallGetTopic(t) ==
    /\ pc[t] = "idle"
    /\ \E bufferLength \in ParBufferLengths, api \in ParApis :
          LET name == <<"T">>
              frame == [pBuffer |-> ObjName(t, "buffer"), bufferLength |-> bufferLength,
                        pThingName |-> ObjName(t, "thingName"),
                        thingNameLength |-> Len(name), api |-> api,
                        pOutLength |-> ObjName(t, "outLength"),
                        ret |-> DefenderSuccess, topicLength |-> 0, offset |-> 0]
              setup(h) == [h EXCEPT ![ObjName(t, "buffer")] = Fill(FillByte, bufferLength),
                                    ![ObjName(t, "thingName")] = name,
                                    ![ObjName(t, "outLength")] = SlotPriors.outLength]
          IN  /\ mem' = setup(mem)
              /\ mem0' = setup(mem0)
              /\ gt' = [gt EXCEPT ![FrameOf(t)] = frame]
              /\ acc' = [acc EXCEPT ![t] =
                            [fn |-> "GetTopic", gt |-> frame, mt |-> NoMatchTopicFrame,
                             overlapped |-> \E u \in Threads \ {t} : Running(pc[u])]]
    /\ pc' = [pc EXCEPT ![t] = "gt_params"]
    /\ UNCHANGED mt

\* Caller t sets up its own topic and slots and enters Defender_MatchTopic.
P_CallMatchTopic(t) ==
    /\ pc[t] = "idle"
    /\ \E topic \in ParTopics :
          LET apiPrior == DefenderCborReportAccepted
              frame == NewMatchFrame(ObjName(t, "topic"), Len(topic), ObjName(t, "outApi"),
                                     ObjName(t, "outThingName"),
                                     ObjName(t, "outThingNameLength"))
              setup(h) == [h EXCEPT ![ObjName(t, "topic")] = topic,
                                    ![ObjName(t, "outApi")] = apiPrior,
                                    ![ObjName(t, "outThingName")] = SlotPriors.outThingName,
                                    ![ObjName(t, "outThingNameLength")] =
                                        SlotPriors.outThingNameLength]
          IN  /\ mem' = setup(mem)
              /\ mem0' = setup(mem0)
              /\ mt' = [mt EXCEPT ![FrameOf(t)] = frame]
              /\ acc' = [acc EXCEPT ![t] =
                            [fn |-> "MatchTopic", gt |-> NoGetTopicFrame, mt |-> frame,
                             overlapped |-> \E u \in Threads \ {t} : Running(pc[u])]]
    /\ pc' = [pc EXCEPT ![t] = "mt_params"]
    /\ UNCHANGED gt

\* Caller t's Defender_GetTopic call runs its next stage.
P_GetTopicStep(t) ==
    /\ pc[t] \in {"gt_params", "gt_length", "gt_write"}
    /\ LET r == GetTopicStep(pc[t], gt[FrameOf(t)], mem)
       IN  /\ pc' = [pc EXCEPT ![t] = r.pc]
           /\ gt' = [gt EXCEPT ![FrameOf(t)] = r.gt]
           /\ mem' = r.mem
    /\ UNCHANGED <<mt, mem0, acc>>

\* Caller t's Defender_MatchTopic call runs its next stage.
P_MatchTopicStep(t) ==
    /\ pc[t] \in {"mt_params", "mt_prefix", "mt_name", "mt_bridge", "mt_api", "mt_out"}
    /\ LET r == MatchTopicStep(pc[t], mt[FrameOf(t)], mem)
       IN  /\ pc' = [pc EXCEPT ![t] = r.pc]
           /\ mt' = [mt EXCEPT ![FrameOf(t)] = r.mt]
           /\ mem' = r.mem
    /\ UNCHANGED <<gt, mem0, acc>>

NextPar ==
    \E t \in Threads :
        \/ P_CallGetTopic(t)
        \/ P_CallMatchTopic(t)
        \/ P_GetTopicStep(t)
        \/ P_MatchTopicStep(t)

SpecPar == InitPar /\ [][NextPar]_vars

(***************************************************************************)
(* Vocabulary of the properties, written out independently of the code's   *)
(* macros and tables.                                                      *)
(***************************************************************************)
ValidApis == 0 .. 5

PrefixText == <<"$", "a", "w", "s", "/", "t", "h", "i", "n", "g", "s", "/">>

BridgeText ==
    <<"/", "d", "e", "f", "e", "n", "d", "e", "r", "/", "m", "e", "t", "r", "i", "c", "s", "/">>

\* The format+suffix string of each valid variant, by enumeration value.
VariantText(api) ==
    CASE api = 0 -> <<"j", "s", "o", "n">>
      [] api = 1 -> <<"j", "s", "o", "n", "/", "a", "c", "c", "e", "p", "t", "e", "d">>
      [] api = 2 -> <<"j", "s", "o", "n", "/", "r", "e", "j", "e", "c", "t", "e", "d">>
      [] api = 3 -> <<"c", "b", "o", "r">>
      [] api = 4 -> <<"c", "b", "o", "r", "/", "a", "c", "c", "e", "p", "t", "e", "d">>
      [] api = 5 -> <<"c", "b", "o", "r", "/", "r", "e", "j", "e", "c", "t", "e", "d">>

SuffixLength(api) == IF api \in {0, 3} THEN 0 ELSE 9

\* L = 12 + identifierLength + 18 + 4 + suffixLength
RequiredLength(identifierLength, api) == 12 + identifierLength + 18 + 4 + SuffixLength(api)

ExpectedTopic(id, api) == PrefixText \o id \o BridgeText \o VariantText(api)

\* The n bytes of array a from C index i on.
Slice(a, i, n) == [k \in 1 .. n |-> ByteAt(a, i + k - 1)]

HasSlash(id) == \E k \in DOMAIN id : id[k] = "/"

\* The parameters of the running Defender_GetTopic call satisfy every
\* precondition.
GetTopicParamsValid ==
    /\ gt.pBuffer # NULL
    /\ gt.pThingName # NULL
    /\ gt.pOutLength # NULL
    /\ gt.thingNameLength >= 1
    /\ gt.thingNameLength <= 128
    /\ gt.api \in ValidApis

InGetTopic == pc \in {"gt_params", "gt_length", "gt_write", "gt_done"}
GetTopicReturned == pc = "gt_done"
GetTopicSucceeded == pc = "gt_done" /\ gt.ret = DefenderSuccess

InMatchTopic == pc \in {"mt_params", "mt_prefix", "mt_name", "mt_bridge", "mt_api", "mt_out", "mt_done"}
MatchTopicReturned == pc = "mt_done"
\* Defender_MatchTopic has returned from a call on the output of Defender_GetTopic.
RoundTripReturned == pc = "mt_done" /\ mt.pTopic = "buffer"

\* The bytes the matcher reported as the thing name (both slots non-null).
ExtractedThingName ==
    Slice(Deref(mem, mt.pTopic), mem.outThingName, mem.outThingNameLength)

\* The round trip returned Success with variant v, offset 12 and the length
\* and bytes of the identifier handed to Defender_GetTopic.
RoundTripExact ==
    /\ mt.ret = DefenderSuccess
    /\ mem.outApi = gt.api
    /\ mt.ppOutThingName # NULL => mem.outThingName = 12
    /\ mt.pOutThingNameLength # NULL => mem.outThingNameLength = gt.thingNameLength
    /\ (mt.ppOutThingName # NULL /\ mt.pOutThingNameLength # NULL)
            => ExtractedThingName = mem.thingName

\* C1 as stated: for every identifier of length 1..128, whatever its bytes,
\* and every valid variant, matching the topic a successful Defender_GetTopic
\* wrote returns Success with that variant, offset 12 and the identifier.
C1_RoundTripAnyBytes == RoundTripReturned => RoundTripExact

\* C1 amended: for every identifier of length 1..128 that contains no '/' byte
\* and every valid variant, matching the topic a successful Defender_GetTopic
\* wrote returns Success with that variant, offset 12 and the identifier.
C1_RoundTrip == (RoundTripReturned /\ ~HasSlash(mem.thingName)) => RoundTripExact

C1_Witness ==
    /\ RoundTripReturned
    /\ ~HasSlash(mem.thingName)
    /\ gt.thingNameLength = 128
    /\ gt.api = DefenderCborReportRejected
    /\ mt.ppOutThingName # NULL
    /\ mt.pOutThingNameLength # NULL
    /\ mt.ret = DefenderSuccess

\* C2: on success the buffer holds "$aws/things/" ++ identifier ++
\* "/defender/metrics/" ++ the variant's format+suffix string in its first
\* L bytes, and the output length is L = 12 + identifierLength + 18 + 4 +
\* suffixLength.
C2_TopicBytes ==
    GetTopicSucceeded =>
        /\ mem.outLength = RequiredLength(gt.thingNameLength, gt.api)
        /\ Slice(mem.buffer, 0, mem.outLength) = ExpectedTopic(mem.thingName, gt.api)

C2_Witness ==
    /\ GetTopicSucceeded
    /\ gt.api = DefenderCborReportRejected
    /\ mem.thingName = <<"T", "/", "T">>
    /\ gt.bufferLength > mem.outLength

\* C3: with valid parameters Defender_GetTopic succeeds iff bufferLength >= L,
\* reports length L when it does (so bufferLength = L succeeds) and returns
\* BufferTooSmall when it does not (so bufferLength = L - 1 fails).
C3_LengthExact ==
    (GetTopicReturned /\ GetTopicParamsValid) =>
        LET L == RequiredLength(gt.thingNameLength, gt.api)
        IN  /\ gt.ret = DefenderSuccess <=> gt.bufferLength >= L
            /\ gt.ret = DefenderSuccess => mem.outLength = L
            /\ gt.ret # DefenderSuccess => gt.ret = DefenderBufferTooSmall

C3_Witness ==
    /\ GetTopicReturned
    /\ GetTopicParamsValid
    /\ gt.thingNameLength = 128
    /\ gt.bufferLength = RequiredLength(gt.thingNameLength, gt.api)
    /\ gt.ret = DefenderSuccess
    /\ mem.outLength = gt.bufferLength

\* C4: Defender_GetTopic returns BadParameter exactly when a precondition is
\* violated (a null pointer, identifier length 0 or above 128, a variant
\* outside the 6 valid values), whatever bufferLength is, and then writes
\* neither the buffer nor the output length.
C4_BadParameter ==
    GetTopicReturned =>
        /\ gt.ret = DefenderBadParameter <=> ~GetTopicParamsValid
        /\ gt.ret = DefenderBadParameter =>
                /\ mem.buffer = mem0.buffer
                /\ acc.written = {}
                /\ mem.outLength = mem0.outLength
                /\ mem.stores = {}

C4_Witness ==
    /\ GetTopicReturned
    /\ gt.pBuffer # NULL /\ gt.pThingName # NULL /\ gt.pOutLength # NULL
    /\ gt.api = DefenderJsonReportPublish
    /\ gt.thingNameLength = 129
    /\ gt.bufferLength = 172
    /\ gt.ret = DefenderBadParameter

\* C5: with valid parameters and bufferLength below the required length,
\* Defender_GetTopic returns BufferTooSmall and, at every point of the call,
\* every byte of the buffer and the output-length slot are as before the call.
C5_AllOrNothing ==
    (InGetTopic /\ GetTopicParamsValid
        /\ gt.bufferLength < RequiredLength(gt.thingNameLength, gt.api)) =>
            /\ GetTopicReturned => gt.ret = DefenderBufferTooSmall
            /\ mem.buffer = mem0.buffer
            /\ acc.written = {}
            /\ mem.outLength = mem0.outLength
            /\ mem.stores = {}

C5_Witness ==
    /\ GetTopicReturned
    /\ GetTopicParamsValid
    /\ gt.bufferLength = RequiredLength(gt.thingNameLength, gt.api) - 1
    /\ gt.ret = DefenderBufferTooSmall

\* C6: for arbitrary inputs, at every point of a Defender_GetTopic call, the
\* buffer indices written lie in [0, requiredLength) with requiredLength <=
\* bufferLength, every byte from index requiredLength on is as before the call
\* (no terminator), and the identifier indices read lie in
\* [0, identifierLength).
C6_Frame ==
    InGetTopic =>
        LET L == RequiredLength(gt.thingNameLength, gt.api)
        IN  /\ acc.written # {} =>
                    /\ L <= gt.bufferLength
                    /\ acc.written \subseteq 0 .. (L - 1)
            /\ \A k \in DOMAIN mem.buffer :
                    (acc.written = {} \/ k - 1 >= L) => mem.buffer[k] = mem0.buffer[k]
            /\ Len(mem.buffer) = Len(mem0.buffer)
            /\ acc.nameRead \subseteq 0 .. (gt.thingNameLength - 1)
            /\ mem.thingName = mem0.thingName

C6_Witness ==
    /\ GetTopicSucceeded
    /\ gt.bufferLength > mem.outLength
    /\ acc.written = 0 .. (mem.outLength - 1)
    /\ ByteAt(mem.buffer, mem.outLength) = FillByte
    /\ acc.nameRead = 0 .. (gt.thingNameLength - 1)

MyThingJsonTopic ==
    <<"$", "a", "w", "s", "/", "t", "h", "i", "n", "g", "s", "/",
      "M", "y", "T", "h", "i", "n", "g",
      "/", "d", "e", "f", "e", "n", "d", "e", "r", "/", "m", "e", "t", "r", "i", "c", "s", "/",
      "j", "s", "o", "n">>

\* The literal example with reported length n: Defender_GetTopic("MyThing",
\* JsonPublish) with room for n bytes writes the example string and reports
\* n, and Defender_MatchTopic of it returns (Success, JsonPublish, 12, 7).
MyThingExample(n) ==
    /\ (GetTopicReturned /\ GetTopicParamsValid /\ mem.thingName = MyThing
            /\ gt.api = DefenderJsonReportPublish /\ gt.bufferLength >= n) =>
                /\ gt.ret = DefenderSuccess
                /\ mem.outLength = n
                /\ Slice(mem.buffer, 0, Len(MyThingJsonTopic)) = MyThingJsonTopic
    /\ (RoundTripReturned /\ mem.thingName = MyThing
            /\ gt.api = DefenderJsonReportPublish) =>
                /\ mt.ret = DefenderSuccess
                /\ mem.outApi = DefenderJsonReportPublish
                /\ mt.ppOutThingName # NULL => mem.outThingName = 12
                /\ mt.pOutThingNameLength # NULL => mem.outThingNameLength = 7

\* C7 as stated: the topic of "MyThing" and JsonPublish is
\* "$aws/things/MyThing/defender/metrics/json" with reported length 42, and
\* matching it gives (JsonPublish, offset 12, length 7).
C7_MyThingLength42 == MyThingExample(42)

\* C7 amended: the topic of "MyThing" and JsonPublish is
\* "$aws/things/MyThing/defender/metrics/json" with reported length 41, and
\* matching it gives (JsonPublish, offset 12, length 7).
C7_MyThing == MyThingExample(41) /\ Len(MyThingJsonTopic) = 41

C7_Witness ==
    /\ RoundTripReturned
    /\ mem.thingName = MyThing
    /\ gt.api = DefenderJsonReportPublish
    /\ gt.bufferLength = 41
    /\ mt.ppOutThingName # NULL
    /\ mt.pOutThingNameLength # NULL
    /\ mem.outThingNameLength = 7

\* The topic bytes handed to the running Defender_MatchTopic call.
TopicBytes == Slice(mem[IF mt.pTopic = "buffer" THEN "buffer" ELSE "topic"], 0, mt.topicLength)

\* t is "$aws/things/" ++ id ++ "/defender/metrics/" ++ the string of variant
\* v for some non-empty id without '/'; the length of t fixes that of id.
IsTopicOf(t, v) ==
    LET n == Len(t) - 12 - 18 - Len(VariantText(v))
    IN  /\ n >= 1
        /\ ~HasSlash(Slice(t, 12, n))
        /\ t = ExpectedTopic(Slice(t, 12, n), v)

\* The variant a topic denotes, as a function of its bytes alone.
VariantOf(t) ==
    IF \E v \in ValidApis : IsTopicOf(t, v)
    THEN CHOOSE v \in ValidApis : IsTopicOf(t, v)
    ELSE DefenderInvalidTopic

\* The number of bytes between the 12-byte prefix and the first '/' after it.
IdSegmentLength(t) ==
    CHOOSE n \in 0 .. Len(t) :
        /\ ByteAt(t, 12 + n) = "/"
        /\ \A k \in 0 .. (n - 1) : ByteAt(t, 12 + k) # "/"

MatchTopicParamsValid == mt.pTopic # NULL /\ mt.pOutApi # NULL

\* C8: after a successful Defender_MatchTopic the variant slot holds one of
\* the 6 valid variants, a non-null identifier-start slot holds offset 12, a
\* non-null identifier-length slot holds the number of bytes between the
\* prefix and the next '/'; status and variant are a function of the topic
\* bytes alone, whichever optional slots are null.
C8_MatchOutputs ==
    /\ (MatchTopicReturned /\ mt.ret = DefenderSuccess) =>
            /\ mem.outApi \in ValidApis
            /\ mt.ppOutThingName # NULL => mem.outThingName = 12
            /\ mt.pOutThingNameLength # NULL =>
                    mem.outThingNameLength = IdSegmentLength(TopicBytes)
    /\ (MatchTopicReturned /\ MatchTopicParamsValid) =>
            /\ mt.ret = (IF VariantOf(TopicBytes) \in ValidApis
                         THEN DefenderSuccess ELSE DefenderNoMatch)
            /\ mem.outApi = VariantOf(TopicBytes)

C8_Witness ==
    /\ MatchTopicReturned
    /\ mt.pTopic = "topic"
    /\ mt.ret = DefenderSuccess
    /\ mt.ppOutThingName = NULL
    /\ mt.pOutThingNameLength # NULL
    /\ mem.outThingNameLength = 2
    /\ mem.outApi = DefenderCborReportRejected

\* C9: whenever Defender_MatchTopic returns NoMatch, as it does for
\* "$aws/things/MyThing", the variant slot holds DefenderInvalidTopic whatever
\* it held before, and the identifier-start and identifier-length slots hold
\* what they held before the call.
C9_NoMatch ==
    /\ (MatchTopicReturned /\ mt.ret = DefenderNoMatch) =>
            /\ mem.outApi = DefenderInvalidTopic
            /\ mem.outThingName = mem0.outThingName
            /\ mem.outThingNameLength = mem0.outThingNameLength
            /\ mem.stores \subseteq {"outApi"}
    /\ (MatchTopicReturned /\ MatchTopicParamsValid
            /\ TopicBytes = PrefixText \o <<"M", "y", "T", "h", "i", "n", "g">>) =>
                mt.ret = DefenderNoMatch

C9_Witness ==
    /\ MatchTopicReturned
    /\ TopicBytes = PrefixText \o <<"M", "y", "T", "h", "i", "n", "g">>
    /\ mt.ret = DefenderNoMatch
    /\ mem0.outApi = DefenderCborReportAccepted
    /\ mem.outApi = DefenderInvalidTopic
    /\ mt.ppOutThingName # NULL
    /\ mt.pOutThingNameLength # NULL

\* C10: Defender_MatchTopic returns BadParameter iff the topic pointer or the
\* variant slot is null; in such a call no stage consumes anything, no topic
\* byte is read and no slot is written, so a non-null variant slot keeps its
\* prior value.
C10_MatchBadParameter ==
    /\ MatchTopicReturned =>
            (mt.ret = DefenderBadParameter <=> (mt.pTopic = NULL \/ mt.pOutApi = NULL))
    /\ (InMatchTopic /\ (mt.pTopic = NULL \/ mt.pOutApi = NULL)) =>
            /\ acc.topicRead = {}
            /\ mem.stores = {}
            /\ mem.outApi = mem0.outApi
            /\ mem.outThingName = mem0.outThingName
            /\ mem.outThingNameLength = mem0.outThingNameLength
            /\ mt.consumedTopicLength = 0
            /\ mt.thingNameLength = 0

C10_Witness ==
    /\ MatchTopicReturned
    /\ mt.pTopic = NULL
    /\ mt.pOutApi # NULL
    /\ mt.ppOutThingName # NULL
    /\ mt.pOutThingNameLength # NULL
    /\ mem.topic = ExpectedTopic(<<"T">>, DefenderJsonReportPublish)
    /\ mem0.outApi = DefenderCborReportAccepted
    /\ mem.outApi = DefenderCborReportAccepted
    /\ mt.ret = DefenderBadParameter

(***************************************************************************)
(* The stages of the matcher, read off the topic bytes.                    *)
(***************************************************************************)
\* t starts with the 12 bytes "$aws/things/".
PrefixOk(t) == Len(t) >= 12 /\ Slice(t, 0, 12) = PrefixText

\* Some byte of t after the 12-byte prefix is '/'.
HasSeparator(t) == \E k \in 12 .. (Len(t) - 1) : ByteAt(t, k) = "/"

\* After the prefix, t has a non-empty identifier without '/' and then the
\* 18 bytes "/defender/metrics/".
BridgeOk(t) ==
    /\ HasSeparator(t)
    /\ IdSegmentLength(t) >= 1
    /\ Len(t) >= 12 + IdSegmentLength(t) + 18
    /\ Slice(t, 12 + IdSegmentLength(t), 18) = BridgeText

\* The bytes of t after the bridge.
AfterBridge(t) ==
    Slice(t, 30 + IdSegmentLength(t), Len(t) - 30 - IdSegmentLength(t))

VariantTexts == {VariantText(v) : v \in ValidApis}

\* C11: for a topic with the right prefix, a non-empty identifier and the
\* right bridge, Defender_MatchTopic returns Success exactly when the bytes
\* after the bridge equal one of the six variant strings in length and in
\* content, and NoMatch otherwise: one byte or one level too many ("json2",
\* "json/", "json/accepted/") and a truncated string ("jso", nothing) give
\* NoMatch.
C11_ExactVariant ==
    (MatchTopicReturned /\ MatchTopicParamsValid
        /\ PrefixOk(TopicBytes) /\ BridgeOk(TopicBytes)) =>
            /\ mt.ret = (IF AfterBridge(TopicBytes) \in VariantTexts
                         THEN DefenderSuccess ELSE DefenderNoMatch)
            /\ mt.ret = DefenderSuccess =>
                    AfterBridge(TopicBytes) = VariantText(mem.outApi)
            /\ AfterBridge(TopicBytes) \in
                    { <<"j", "s", "o", "n", "2">>,
                      <<"j", "s", "o", "n", "/">>,
                      <<"j", "s", "o", "n", "/", "a", "c", "c", "e", "p", "t", "e", "d", "/">>,
                      <<"j", "s", "o">>,
                      <<>> }
                    => mt.ret = DefenderNoMatch

C11_Witness ==
    /\ MatchTopicReturned
    /\ MatchTopicParamsValid
    /\ PrefixOk(TopicBytes)
    /\ BridgeOk(TopicBytes)
    /\ AfterBridge(TopicBytes) =
            <<"j", "s", "o", "n", "/", "a", "c", "c", "e", "p", "t", "e", "d", "/">>
    /\ mt.ret = DefenderNoMatch
    /\ mem.outApi = DefenderInvalidTopic

\* The specification's example of an empty identifier.
EmptyIdTopic == PrefixText \o BridgeText \o <<"j", "s", "o", "n">>

\* C12: a topic whose byte right after the 12-byte prefix is '/', such as
\* "$aws/things//defender/metrics/json", and a topic that ends right after
\* the prefix return NoMatch; a successful match always reports an
\* identifier length of at least 1.
C12_EmptyIdentifier ==
    /\ (MatchTopicReturned /\ MatchTopicParamsValid /\ PrefixOk(TopicBytes)
            /\ (Len(TopicBytes) = 12 \/ ByteAt(TopicBytes, 12) = "/")) =>
                mt.ret = DefenderNoMatch
    /\ (MatchTopicReturned /\ MatchTopicParamsValid /\ TopicBytes = EmptyIdTopic) =>
                mt.ret = DefenderNoMatch
    /\ (MatchTopicReturned /\ mt.ret = DefenderSuccess) =>
            /\ mt.thingNameLength >= 1
            /\ mt.pOutThingNameLength # NULL => mem.outThingNameLength >= 1

C12_Witness ==
    /\ MatchTopicReturned
    /\ MatchTopicParamsValid
    /\ TopicBytes = EmptyIdTopic
    /\ mt.ret = DefenderNoMatch
    /\ mt.pOutThingNameLength # NULL
    /\ mem.outThingNameLength = mem0.outThingNameLength

\* The length of the identifier of a topic of variant v.
IdLengthOf(t, v) == Len(t) - 12 - 18 - Len(VariantText(v))

\* C13: Defender_MatchTopic does not enforce the 128-byte limit: a topic of
\* the grammar whose '/'-free identifier is longer than 128 bytes matches
\* with Success and the full identifier length is reported, although
\* Defender_GetTopic refuses an identifier of that length with BadParameter.
C13_NoLengthLimit ==
    /\ \A v \in ValidApis :
            (MatchTopicReturned /\ MatchTopicParamsValid
                /\ IsTopicOf(TopicBytes, v) /\ IdLengthOf(TopicBytes, v) > 128) =>
                    /\ mt.ret = DefenderSuccess
                    /\ mem.outApi = v
                    /\ mt.thingNameLength = IdLengthOf(TopicBytes, v)
                    /\ mt.pOutThingNameLength # NULL =>
                            mem.outThingNameLength = IdLengthOf(TopicBytes, v)
    /\ (GetTopicReturned /\ gt.thingNameLength > 128) => gt.ret = DefenderBadParameter

C13_Witness ==
    /\ MatchTopicReturned
    /\ mt.ret = DefenderSuccess
    /\ TopicBytes = ExpectedTopic([k \in 1 .. 129 |-> "T"], DefenderCborReportAccepted)
    /\ mt.pOutThingNameLength # NULL
    /\ mem.outThingNameLength = 129
    /\ mem.outApi = DefenderCborReportAccepted

\* Defender_GetTopic has returned, and its frame still holds what it returned.
GetTopicHasReturned == pc = "gt_done" \/ (InMatchTopic /\ mt.pTopic = "buffer")

\* C15: Defender_GetTopic returns one of Success, BadParameter and
\* BufferTooSmall, never NoMatch; Defender_MatchTopic returns one of Success,
\* NoMatch and BadParameter, never BufferTooSmall; neither returns
\* DefenderError.
C15_StatusTaxonomy ==
    /\ GetTopicHasReturned =>
            /\ gt.ret \in {DefenderSuccess, DefenderBadParameter, DefenderBufferTooSmall}
            /\ gt.ret # DefenderNoMatch
            /\ gt.ret # DefenderError
    /\ MatchTopicReturned =>
            /\ mt.ret \in {DefenderSuccess, DefenderNoMatch, DefenderBadParameter}
            /\ mt.ret # DefenderBufferTooSmall
            /\ mt.ret # DefenderError

\* Both functions have returned: the builder Success, the matcher NoMatch at
\* the bridge stage.
C15_Witness ==
    /\ MatchTopicReturned
    /\ GetTopicHasReturned
    /\ gt.ret = DefenderSuccess
    /\ mt.ret = DefenderNoMatch
    /\ PrefixOk(TopicBytes)
    /\ ~BridgeOk(TopicBytes)

\* C16: for every identifier length n in 1..128, DEFENDER_API_MAX_LENGTH(n)
\* is at least the length Defender_GetTopic requires for each of the six
\* variants, so a call with valid parameters and a buffer of exactly
\* DEFENDER_API_MAX_LENGTH(thingNameLength) bytes never returns
\* BufferTooSmall.
C16_MaxLength ==
    /\ pc = "idle" =>
            \A n \in 1 .. DEFENDER_THINGNAME_MAX_LENGTH, v \in ValidApis :
                DEFENDER_API_MAX_LENGTH(n) >= getTopicLength(n, v)
    /\ (pc \in {"gt_write", "gt_done"} /\ GetTopicParamsValid
            /\ gt.bufferLength = DEFENDER_API_MAX_LENGTH(gt.thingNameLength)) =>
                /\ gt.ret = DefenderSuccess
                /\ gt.topicLength <= gt.bufferLength

C16_Witness ==
    /\ GetTopicReturned
    /\ GetTopicParamsValid
    /\ gt.thingNameLength = DEFENDER_THINGNAME_MAX_LENGTH
    /\ gt.api = DefenderJsonReportRejected
    /\ gt.bufferLength = DEFENDER_API_MAX_LENGTH(gt.thingNameLength)
    /\ gt.ret = DefenderSuccess
    /\ mem.outLength = gt.bufferLength

(***************************************************************************)
(* The grammar of the topics, read off the bytes.                          *)
(***************************************************************************)
\* t is "$aws/things/" ++ id ++ "/defender/metrics/" ++ s for the string s of
\* variant v and a non-empty id without '/'.
InGrammarAs(t, v) ==
    LET s == VariantText(v)
        n == Len(t) - 12 - 18 - Len(s)
    IN  /\ n >= 1
        /\ Slice(t, 30 + n, Len(s)) = s
        /\ Slice(t, 0, 12) = PrefixText
        /\ Slice(t, 12 + n, 18) = BridgeText
        /\ \A k \in 0 .. (n - 1) : ByteAt(t, 12 + k) # "/"

InGrammar(t) == \E v \in ValidApis : InGrammarAs(t, v)

UpperCase == <<"A", "B", "C", "D", "E", "F", "G", "H", "I", "J", "K", "L", "M",
              "N", "O", "P", "Q", "R", "S", "T", "U", "V", "W", "X", "Y", "Z">>
LowerCase == <<"a", "b", "c", "d", "e", "f", "g", "h", "i", "j", "k", "l", "m",
              "n", "o", "p", "q", "r", "s", "t", "u", "v", "w", "x", "y", "z">>

\* The same letter in the other case; any other byte is left as it is.
OtherCase(b) ==
    IF \E k \in 1 .. 26 : UpperCase[k] = b
    THEN LowerCase[CHOOSE k \in 1 .. 26 : UpperCase[k] = b]
    ELSE IF \E k \in 1 .. 26 : LowerCase[k] = b
         THEN UpperCase[CHOOSE k \in 1 .. 26 : LowerCase[k] = b]
         ELSE b

\* t is a topic of the grammar with the case of one byte of its literals
\* changed: 1-based position k is outside the identifier.
CaseChanged(t) ==
    \E k \in 1 .. Len(t) :
        /\ OtherCase(t[k]) # t[k]
        /\ \E v \in ValidApis :
                /\ InGrammarAs([t EXCEPT ![k] = OtherCase(t[k])], v)
                /\ (k <= 12 \/ k > Len(t) - 18 - Len(VariantText(v)))

\* t is a topic of the grammar with one byte before it or one byte after it.
BytePadded(t) ==
    /\ Len(t) >= 1
    /\ (InGrammar(Slice(t, 1, Len(t) - 1)) \/ InGrammar(Slice(t, 0, Len(t) - 1)))

\* C17: for every topic handed over with a non-null topic pointer and a
\* non-null variant slot, Defender_MatchTopic returns Success if and only if
\* the topic is "$aws/things/" ++ id ++ "/defender/metrics/" ++ s for a
\* non-empty id without '/' and one of the six variant strings s, and NoMatch
\* otherwise; nothing is folded or trimmed, so changing the case of a byte of
\* the literals, or adding a byte in front or at the end, gives NoMatch.
C17_Grammar ==
    (MatchTopicReturned /\ MatchTopicParamsValid) =>
        /\ mt.ret = (IF InGrammar(TopicBytes) THEN DefenderSuccess ELSE DefenderNoMatch)
        /\ (CaseChanged(TopicBytes) \/ BytePadded(TopicBytes)) => mt.ret = DefenderNoMatch

C17_Witness ==
    /\ MatchTopicReturned
    /\ MatchTopicParamsValid
    /\ TopicBytes = <<"$", "A", "w", "s", "/", "t", "h", "i", "n", "g", "s", "/">>
                        \o <<"T">> \o BridgeText \o <<"j", "s", "o", "n">>
    /\ CaseChanged(TopicBytes)
    /\ mt.ret = DefenderNoMatch

\* The running Defender_MatchTopic call has valid parameters and a topic that
\* starts with the prefix and has no '/' in the bytes after it.
NoSeparatorCase ==
    /\ InMatchTopic
    /\ MatchTopicParamsValid
    /\ PrefixOk(TopicBytes)
    /\ ~HasSeparator(TopicBytes)

\* The identifier stage has just run; the bridge stage runs next, and is
\* attempted exactly when ret is still Success.
IdentifierStageDone == pc = "mt_bridge"

\* C18 as stated: when the bytes remaining after the prefix contain no '/' at
\* all, the identifier stage itself fails with NoMatch and the bridge stage
\* is never attempted.
C18_IdentifierStageFails ==
    (IdentifierStageDone /\ NoSeparatorCase) => mt.ret = DefenderNoMatch

\* C18 amended: when the bytes remaining after the prefix contain no '/' at
\* all, the identifier stage fails with NoMatch only if nothing remains;
\* otherwise it succeeds with all the remaining bytes as the identifier, the
\* bridge stage is attempted with nothing left and fails, and the call
\* returns NoMatch.
C18_MissingSeparator ==
    NoSeparatorCase =>
        /\ IdentifierStageDone =>
                IF Len(TopicBytes) > 12
                THEN /\ mt.ret = DefenderSuccess
                     /\ mt.thingNameLength = Len(TopicBytes) - 12
                     /\ mt.remainingTopicLength = 0
                     /\ mt.consumedTopicLength = Len(TopicBytes)
                ELSE /\ mt.ret = DefenderNoMatch
                     /\ mt.thingNameLength = 0
        /\ pc \in {"mt_api", "mt_out", "mt_done"} => mt.ret = DefenderNoMatch
        /\ pc = "mt_done" => mem.outApi = DefenderInvalidTopic

\* The bridge stage has run and failed on "$aws/things/MyThing".
C18_Witness ==
    /\ NoSeparatorCase
    /\ pc = "mt_api"
    /\ TopicBytes = PrefixText \o <<"M", "y", "T", "h", "i", "n", "g">>
    /\ mt.thingNameLength = 7
    /\ mt.remainingTopicLength = 0
    /\ mt.ret = DefenderNoMatch

\* Defender_GetTopic is about to call getTopicLength / writeFormatAndSuffix.
CallsGetTopicLength == pc = "gt_length" /\ gt.ret = DefenderSuccess
CallsWriteFormatAndSuffix == pc = "gt_write" /\ gt.ret = DefenderSuccess

\* C19: on every call path from Defender_GetTopic the assertions at the top
\* of getTopicLength (identifier length in 1..128, variant valid) and of
\* writeFormatAndSuffix (buffer non-null, variant valid) hold, and the branch
\* shared by "case DefenderCborReportRejected" and "default" is reached only
\* with the variant DefenderCborReportRejected.
C19_Assertions ==
    /\ CallsGetTopicLength =>
            /\ getTopicLengthAssert(gt.thingNameLength, gt.api)
            /\ SwitchDefaultBranch(gt.api) => gt.api = DefenderCborReportRejected
    /\ CallsWriteFormatAndSuffix =>
            /\ writeFormatAndSuffixAssert(gt.pBuffer, gt.api)
            /\ SwitchDefaultBranch(gt.api) => gt.api = DefenderCborReportRejected

C19_Witness ==
    /\ CallsWriteFormatAndSuffix
    /\ SwitchDefaultBranch(gt.api)
    /\ gt.api = DefenderCborReportRejected
    /\ gt.thingNameLength = DEFENDER_THINGNAME_MAX_LENGTH
    /\ gt.topicLength = DEFENDER_API_CBOR_REPORT_REJECTED_LENGTH(DEFENDER_THINGNAME_MAX_LENGTH)

\* The index of variant v in the defenderApi table (1-based).
TableIndex(v) == CHOOSE i \in DOMAIN defenderApi : defenderApi[i] = v

\* C20: for each of the six variants v, the bytes writeFormatAndSuffix writes
\* and the length getTopicLength adds to prefix, identifier and bridge are
\* the string and the length of the matcher's tables at the index i with
\* defenderApi[i] = v; the three tables have six entries each, in the same
\* order.
C20_TableAgreement ==
    /\ Len(defenderApi) = 6
    /\ Len(defenderApiTopic) = 6
    /\ Len(defenderApiTopicLength) = 6
    /\ \A v \in ValidApis : \E i \in DOMAIN defenderApi : defenderApi[i] = v
    /\ \A i \in DOMAIN defenderApi : defenderApiTopicLength[i] = Len(defenderApiTopic[i])
    /\ GetTopicSucceeded =>
            LET i == TableIndex(gt.api)
                added == gt.topicLength
                            - (DEFENDER_API_PREFIX_LENGTH + gt.thingNameLength
                                    + DEFENDER_API_BRIDGE_LENGTH)
            IN  /\ gt.offset = DEFENDER_API_PREFIX_LENGTH + gt.thingNameLength
                                    + DEFENDER_API_BRIDGE_LENGTH
                /\ added = defenderApiTopicLength[i]
                /\ Slice(mem.buffer, gt.offset, added) = defenderApiTopic[i]
                /\ \A k \in acc.written : k < gt.offset + defenderApiTopicLength[i]

C20_Witness ==
    /\ GetTopicSucceeded
    /\ gt.api = DefenderJsonReportAccepted
    /\ TableIndex(gt.api) = 2
    /\ Slice(mem.buffer, gt.offset, 13) =
            <<"j", "s", "o", "n", "/", "a", "c", "c", "e", "p", "t", "e", "d">>
    /\ gt.topicLength - gt.offset = 13

(***************************************************************************)
(* Calls run alone.                                                        *)
(***************************************************************************)
\* Defender_GetTopic run to its return from the given stage, with no other
\* call in between.
RECURSIVE RunGetTopic(_, _, _)
RunGetTopic(stage, g, h) ==
    IF stage = "gt_done"
    THEN [gt |-> g, mem |-> h]
    ELSE LET r == GetTopicStep(stage, g, h) IN RunGetTopic(r.pc, r.gt, r.mem)

RECURSIVE RunMatchTopic(_, _, _)
RunMatchTopic(stage, m, h) ==
    IF stage = "mt_done"
    THEN [mt |-> m, mem |-> h]
    ELSE LET r == MatchTopicStep(stage, m, h) IN RunMatchTopic(r.pc, r.mt, r.mem)

\* The stages of the concurrent calls are the stages of the calls of Spec:
\* every step of Spec inside a call changes pc, frame and memory as
\* GetTopicStep and MatchTopicStep say.
StageStepsAgree ==
    [][ /\ pc \in {"gt_params", "gt_length", "gt_write"} =>
                LET r == GetTopicStep(pc, gt, mem)
                IN  pc' = r.pc /\ gt' = r.gt /\ mem' = r.mem /\ mt' = mt
        /\ pc \in {"mt_params", "mt_prefix", "mt_name", "mt_bridge", "mt_api", "mt_out"} =>
                LET r == MatchTopicStep(pc, mt, mem)
                IN  pc' = r.pc /\ mt' = r.mt /\ mem' = r.mem /\ gt' = gt ]_vars

\* Memories h1 and h2 agree on caller t's objects and on the stores made
\* through caller t's pointers.
SameOutputs(t, h1, h2) ==
    /\ \A o \in Objects : h1[ObjName(t, o)] = h2[ObjName(t, o)]
    /\ \A o \in Objects : ObjName(t, o) \in h1.stores <=> ObjName(t, o) \in h2.stores

\* C14: both functions are reentrant: in any interleaving of concurrent
\* Defender_GetTopic and Defender_MatchTopic calls whose buffers and slots
\* are pairwise disjoint, each call returns the status and leaves the
\* outputs it returns and leaves when run alone on the same inputs; no call
\* stores anywhere but through its own pointer parameters (the shared
\* variant tables are never written).
C14_Reentrant ==
    /\ \A t \in Threads :
            /\ pc[t] = "gt_done" =>
                    LET alone == RunGetTopic("gt_params", acc[t].gt, mem0)
                    IN  /\ gt[FrameOf(t)].ret = alone.gt.ret
                        /\ SameOutputs(t, mem, alone.mem)
            /\ pc[t] = "mt_done" =>
                    LET alone == RunMatchTopic("mt_params", acc[t].mt, mem0)
                    IN  /\ mt[FrameOf(t)].ret = alone.mt.ret
                        /\ SameOutputs(t, mem, alone.mem)
            /\ pc[t] = "idle" => \A o \in Objects : mem[ObjName(t, o)] = 0
    /\ mem.stores \subseteq ObjNames

\* Two calls that overlapped have both returned Success.
C14_Witness ==
    /\ pc[1] = "gt_done"
    /\ pc[2] = "mt_done"
    /\ acc[1].overlapped
    /\ gt[FrameOf(1)].ret = DefenderSuccess
    /\ mt[FrameOf(2)].ret = DefenderSuccess
    /\ mem[ObjName(1, "outLength")] = DEFENDER_API_JSON_REPORT_ACCEPTED_LENGTH(1)
    /\ mem[ObjName(2, "outApi")] = DefenderJsonReportRejected

\* C21: for every identifier of length 1..128, with or without '/' bytes or
\* the bridge literal inside, and every valid variant, Defender_MatchTopic
\* on the topic a successful Defender_GetTopic wrote returns either Success
\* with exactly that variant and that identifier, or NoMatch with the
\* variant slot reset; it never reports another identifier or variant, and
\* it returns NoMatch exactly when the identifier contains a '/'.
C21_NoMisattribution ==
    RoundTripReturned =>
        /\ mt.ret \in {DefenderSuccess, DefenderNoMatch}
        /\ mt.ret = DefenderSuccess => RoundTripExact
        /\ mt.ret = DefenderNoMatch => mem.outApi = DefenderInvalidTopic
        /\ mt.ret = DefenderNoMatch <=> HasSlash(mem.thingName)

\* The identifier is "T/defender/metrics/json": the topic written holds a
\* whole topic of identifier "T" at its start, and does not match.
C21_Witness ==
    /\ RoundTripReturned
    /\ mem.thingName = <<"T">> \o BridgeText \o <<"j", "s", "o", "n">>
    /\ gt.api = DefenderJsonReportPublish
    /\ mt.ret = DefenderNoMatch
    /\ mem.outApi = DefenderInvalidTopic
    /\ mt.thingNameLength = 1

\* Defender_MatchTopic has set remainingTopicLength and consumedTopicLength
\* for the stages.
MatchLocalsSet == pc \in {"mt_prefix", "mt_name", "mt_bridge", "mt_api", "mt_out", "mt_done"}

\* What is consumed and what remains add up to the topic, and every topic
\* byte read so far lies inside the topic.
MatcherInBounds ==
    MatchLocalsSet =>
        /\ mt.consumedTopicLength + mt.remainingTopicLength = mt.topicLength
        /\ mt.remainingTopicLength \in 0 .. mt.topicLength
        /\ mt.consumedTopicLength \in 0 .. mt.topicLength
        /\ \A k \in acc.topicRead : k >= 0 /\ k < mt.topicLength

\* A stage moves n >= 0 bytes from the remaining to the consumed length, and
\* neither 16-bit operation wraps around.
MatcherNoWrap ==
    pc \in {"mt_prefix", "mt_name", "mt_bridge", "mt_api"} =>
        LET n == mt'.consumedTopicLength - mt.consumedTopicLength
        IN  /\ n >= 0
            /\ n <= mt.remainingTopicLength
            /\ mt'.remainingTopicLength = mt.remainingTopicLength - n
            /\ mt.consumedTopicLength + n < UINT16

\* C22: throughout Defender_MatchTopic, once the two lengths are set,
\* consumedTopicLength + remainingTopicLength = topicLength; no subtraction
\* from remainingTopicLength underflows and no addition to
\* consumedTopicLength overflows 16 bits; every topic byte a stage reads has
\* an index below topicLength.
C22_MatcherBounds == []MatcherInBounds /\ [][MatcherNoWrap]_vars

\* The identifier stage has run on a topic of 65535 bytes with no '/' after
\* the prefix: all 65535 bytes are consumed, the greatest value there is.
C22_Witness ==
    /\ pc = "mt_bridge"
    /\ mt.topicLength = UINT16_MAX
    /\ mt.ret = DefenderSuccess
    /\ mt.thingNameLength = UINT16_MAX - 12
    /\ mt.consumedTopicLength = UINT16_MAX
    /\ mt.remainingTopicLength = 0
    /\ UINT16_MAX - 1 \in acc.topicRead

====
